---- MODULE Spec2Model ----
(***************************************************************************)
(* A model of lib/SlackAPI.js: the request dispatcher (makeRequest), the   *)
(* generated method table, the entity cache (storage.users / channels /    *)
(* groups, storage.self / team), the bespoke auth.test and                 *)
(* chat.postMessage bodies and the streaming connection (SlackRTM.start).  *)
(*                                                                         *)
(* JavaScript values are tagged records: the field t names the type, s is  *)
(* always a string, n always a number.  Every asynchronous HTTP request is *)
(* a call record with st = "inflight"; the transport's answer is chosen    *)
(* nondeterministically when the response action fires.  An exception      *)
(* that escapes a handler ends the call with st = "thrown".                *)
(***************************************************************************)
EXTENDS Integers, Sequences, FiniteSets, TLC

VARIABLES
    cacheKeys,   \* own properties of this.cache (hasOwnProperty)
    cacheSelf,   \* this.cache.self
    cacheTeam,   \* this.cache.team
    parts,       \* this.cache.users / channels / groups: id -> entity
    calls,       \* facade calls whose request is in flight
    done,        \* the call whose handler finished last, with what it did
    ncalls,      \* how many facade calls have been made
    chat,        \* chat.postMessage calls made so far
    socket,      \* rtm.socket: connect() calls, message listeners, reconnect_url,
                 \* and how the last start() handler ended
    emits,       \* what the facade has emitted to its listeners
    saves        \* how many times the caller has used storage.<kind>s.save

vars == <<cacheKeys, cacheSelf, cacheTeam, parts, calls, done, ncalls, chat, socket, emits, saves>>

----------------------------------------------------------------------------
(* Bounds of the model *)

MaxCalls == 2      \* facade calls that take a callback
MaxChat == 1       \* chat.postMessage calls
MaxChunks == 2     \* texts of up to MaxChunks full chunks (plus one unit)
MaxStarts == 2     \* rtm.start() calls
MaxMsgs == 2       \* payloads delivered by the socket
MaxSaves == 1      \* storage.<kind>s.save calls made by the caller

----------------------------------------------------------------------------
(* JavaScript values *)

Undefined == [t |-> "undefined"]
Null == [t |-> "null"]
Str(x) == [t |-> "string", s |-> x]
Num(x) == [t |-> "number", n |-> x]
ErrorObj(x) == [t |-> "Error", s |-> x]

\* ToBoolean, as used by if(err), if(body.error), if(!body.ok), if(!args.text)
Truthy(v) ==
    CASE v.t = "undefined" -> FALSE
      [] v.t = "null" -> FALSE
      [] v.t = "string" -> v.s # ""
      [] v.t = "number" -> v.n # 0
      [] v.t = "boolean" -> v.b
      [] OTHER -> TRUE

Kinds == {"user", "channel", "group"}

\* let storagePlural = `${storageName}s`
storagePlural(storageName) == storageName \o "s"

PartNames == {storagePlural(k) : k \in Kinds}

Ids == {"X1", "X2"}
Revs == {"a", "b"}

\* An entity: a mapping with an id; rev stands for the rest of its shape.
Entity(i, r) == [t |-> "object", id |-> i, rev |-> r]
Entities == {Entity(i, r) : i \in Ids, r \in Revs}

\* function SlackObject(name, id)
SlackObject(name, id) == [t |-> "SlackObject", name |-> name, id |-> id]

\* A parsed response body: { ok, error, ...data }
Body(ok, error, data) == [t |-> "body", ok |-> ok, error |-> error, data |-> data]

\* What the transport hands to the request callback: (err, res, body)
Response(err, statusCode, body) == [err |-> err, statusCode |-> statusCode, body |-> body]

NoResponse == [err |-> Undefined, statusCode |-> 0, body |-> Undefined]

ApiErrors == {Undefined, Str("rate_limited")}

\* The answers the transport can give to a call whose success bodies carry
\* one of `datas`: a transport failure, a non-200 answer with an error body,
\* with a body that names no error and with no body, a 200 answer that is not
\* ok with and without an error code, and a 200 answer that is ok.  With
\* json: true an empty body is delivered as undefined.
Responses(datas) ==
    {Response(ErrorObj("ECONNRESET"), 0, Undefined)}
    \cup {Response(Null, 500, Body(FALSE, e, Undefined)) : e \in ApiErrors}
    \cup {Response(Null, 500, Undefined)}
    \cup {Response(Null, 200, Body(FALSE, e, Undefined)) : e \in ApiErrors}
    \cup {Response(Null, 200, Body(TRUE, Undefined, d)) : d \in datas}

----------------------------------------------------------------------------
(* makeRequest: the request callback, lines 54-76 *)

Thrown == [thrown |-> TRUE, called |-> FALSE, err |-> Undefined, res |-> Undefined]
Callback(err, res) == [thrown |-> FALSE, called |-> TRUE, err |-> err, res |-> res]

\* A slip that takes every 200 answer for a success (no test of body.ok)
makeRequestStatusOnly(r) ==
    IF Truthy(r.err) THEN Callback(r.err, Undefined)
    ELSE IF r.statusCode # 200 THEN
        IF r.body.t = "undefined" THEN Thrown
        ELSE IF Truthy(r.body.error) THEN Callback(r.body.error, Undefined)
        ELSE Callback(Num(r.statusCode), Undefined)
    ELSE Callback(Null, r.body)

\* body.error and body.ok on an undefined body raise a TypeError.
makeRequest(r) ==
    IF Truthy(r.err) THEN Callback(r.err, Undefined)
    ELSE IF r.statusCode # 200 THEN
        IF r.body.t = "undefined" THEN Thrown
        ELSE IF Truthy(r.body.error) THEN Callback(r.body.error, Undefined)
        ELSE Callback(Num(r.statusCode), Undefined)
    ELSE IF r.body.t = "undefined" THEN Thrown
    ELSE IF ~r.body.ok THEN Callback(r.body.error, Undefined)
    ELSE Callback(Null, r.body)

----------------------------------------------------------------------------
(* Call records *)

Invocation(err, res) == [err |-> err, res |-> res]

NewCall(op, k, id, st, reqs, cb) ==
    [op |-> op, k |-> k, id |-> id, st |-> st, reqs |-> reqs,
     resp |-> NoResponse, cb |-> cb, wrote |-> {}]

Pending(op) == {c \in 1..Len(calls) : calls[c].op = op /\ calls[c].st = "inflight"}

Remove(list, c) == [i \in 1..(Len(list) - 1) |-> IF i < c THEN list[i] ELSE list[i + 1]]

NoCall == NewCall("", "", "", "", 0, <<>>)

\* A call is made: it either waits for its request or has finished already.
Begin(call) ==
    /\ ncalls' = ncalls + 1
    /\ IF call.st = "inflight"
          THEN calls' = Append(calls, call) /\ UNCHANGED done
          ELSE done' = call /\ UNCHANGED calls

\* The handler of pending call c has run and left the record `call`.
End(c, call) ==
    /\ calls' = Remove(calls, c)
    /\ done' = call
    /\ UNCHANGED ncalls

\* The call record after its handler ran on response r.
Finish(c, r, st, cb, wrote) ==
    [calls[c] EXCEPT !.st = st, !.resp = r, !.cb = cb, !.wrote = wrote]

----------------------------------------------------------------------------
(* The cache, lines 145-155 *)

doesStorageExist(name) == name \in cacheKeys

\* The cache keys after createStorageIfNotExists(name); a new partition is {}.
createStorageIfNotExists(name) == cacheKeys \cup {name}

EmptyPartition == [i \in {} |-> Undefined]

\* A slip that keeps the entry a partition already has for the id
PutIfAbsent(p, e) == [i \in DOMAIN p \cup {e.id} |-> IF i \in DOMAIN p THEN p[i] ELSE e]

\* this.cache[storagePlural][idObj.id] = idObj
Put(p, e) == [i \in DOMAIN p \cup {e.id} |-> IF i = e.id THEN e ELSE p[i]]

\* A slip that tests the cache object itself instead of the partition
hasCachedInRoot(pl, id) == id \in cacheKeys

\* this.cache[storagePlural].hasOwnProperty(id)
hasCached(pl, id) == id \in DOMAIN parts[pl]

----------------------------------------------------------------------------
(* getIdBasedObjectStorage, lines 157-218 *)

\* get: (id, cb), lines 164-171: create the partition, answer from the cache
\* or issue this.methods[storagePlural].info.
StorageGet(k, id) ==
    LET pl == storagePlural(k) IN
    /\ ncalls < MaxCalls
    /\ cacheKeys' = createStorageIfNotExists(pl)
    /\ Begin(
            IF hasCached(pl, id)
                THEN NewCall("get", k, id, "done", 0, <<Invocation(Null, parts[pl][id])>>)
                ELSE NewCall("get", k, id, "inflight", 1, <<>>))
    /\ UNCHANGED <<cacheSelf, cacheTeam, parts, chat, socket, emits, saves>>

\* What the info callback of get passes to cb after storing res[storageName]:
\* cb(this.cache[storagePlural][res[storageName].id]), line 176.
getSuccessInvocation(stored) == Invocation(stored, Undefined)

\* The info callback of get, lines 171-177, on the transport's answer r.
GetResponse(c, r) ==
    LET pl == storagePlural(calls[c].k)
        out == makeRequest(r)
    IN
    /\ IF out.thrown
          THEN /\ End(c, Finish(c, r, "thrown", <<>>, {}))
               /\ UNCHANGED parts
          ELSE IF Truthy(out.err)
          THEN /\ End(c, Finish(c, r, "done", <<Invocation(out.err, Undefined)>>, {}))
               /\ UNCHANGED parts
          ELSE IF out.res.t = "undefined"
          THEN \* res[storageName] on an undefined res: TypeError
               /\ End(c, Finish(c, r, "thrown", <<>>, {}))
               /\ UNCHANGED parts
          ELSE LET e == out.res.data
                   p == Put(parts[pl], e)
               IN /\ parts' = [parts EXCEPT ![pl] = p]
                  /\ End(c, Finish(c, r, "done", <<getSuccessInvocation(p[e.id])>>, {e.id}))
    /\ UNCHANGED <<cacheKeys, cacheSelf, cacheTeam, chat, socket, emits, saves>>

\* What findInCache returns for the predicate obj.id === id, lines 186-195
findInCacheResult(k, id) ==
    IF hasCached(storagePlural(k), id) THEN parts[storagePlural(k)][id] ELSE Null

\* findInCache: (predicate), lines 179-196: the partition is created before
\* the scan; nothing else changes.
FindInCache(k) ==
    /\ cacheKeys' = createStorageIfNotExists(storagePlural(k))
    /\ UNCHANGED <<cacheSelf, cacheTeam, parts, calls, done, ncalls, chat, socket, emits, saves>>

\* save: (idObj), lines 197-201.
StorageSave(k, e) ==
    LET pl == storagePlural(k) IN
    /\ saves < MaxSaves
    /\ saves' = saves + 1
    /\ cacheKeys' = createStorageIfNotExists(pl)
    /\ parts' = [parts EXCEPT ![pl] = Put(parts[pl], e)]
    /\ UNCHANGED <<cacheSelf, cacheTeam, calls, done, ncalls, chat, socket, emits>>

\* all: (cb), lines 202-205: the partition is created, then the test
\* this.cache.hasOwnProperty(plural) reads an identifier that is declared
\* nowhere, which raises a ReferenceError; lines 207-215 are never reached.
StorageAll(k) ==
    LET pl == storagePlural(k) IN
    /\ ncalls < MaxCalls
    /\ cacheKeys' = createStorageIfNotExists(pl)
    /\ Begin(NewCall("all", k, "", "thrown", 0, <<>>))
    /\ UNCHANGED <<cacheSelf, cacheTeam, parts, chat, socket, emits, saves>>

----------------------------------------------------------------------------
(* The generated methods, lines 299-321 *)

MethodNames == {"api.test", "users.list", "channels.history"}

MethodData == [t |-> "data", s |-> "result"]

\* apiObj[method[i]] = (args, cb) => { ...; makeRequest(methodName, args, cb) }
Method(m) ==
    /\ ncalls < MaxCalls
    /\ Begin(NewCall("method", m, "", "inflight", 1, <<>>))
    /\ UNCHANGED <<cacheKeys, cacheSelf, cacheTeam, parts, chat, socket, emits, saves>>

\* makeRequest's request callback, handing its classification to the caller's cb.
MethodResponse(c, r) ==
    LET out == makeRequest(r) IN
    /\ End(c, IF out.thrown THEN Finish(c, r, "thrown", <<>>, {})
            ELSE Finish(c, r, "done", <<Invocation(out.err, out.res)>>, {}))
    /\ UNCHANGED <<cacheKeys, cacheSelf, cacheTeam, parts, chat, socket, emits, saves>>

----------------------------------------------------------------------------
(* storage.self / storage.team and the bespoke auth.test, lines 220-248, 323-340 *)

\* The success body of auth.test: { user, user_id, team, team_id }
AuthData == [t |-> "auth", user |-> "bot", user_id |-> "UBOT",
             team |-> "acme", team_id |-> "TACME"]

\* A slip that lets the identity check write whether or not the slot is empty
slotIsEmptyUnchecked(name) == TRUE

\* if(!this.cache.hasOwnProperty('self')) ..., line 335 (and 'team', line 336)
slotIsEmpty(name) == name \notin cacheKeys

\* The callback auth.test gives to makeRequest, lines 332-339, on makeRequest's
\* outcome `out`: [thrown, err, res, self, team, keys, wrote].
\* res.user (res.team) is read only when the slot is empty.
authTestCallback(out) ==
    LET needSelf == slotIsEmpty("self")
        needTeam == slotIsEmpty("team")
        same == [thrown |-> FALSE, err |-> out.err, res |-> Undefined, self |-> cacheSelf,
                 team |-> cacheTeam, keys |-> cacheKeys, wrote |-> {}]
    IN
    IF out.thrown THEN [same EXCEPT !.thrown = TRUE]
    ELSE IF Truthy(out.err) THEN same
    ELSE IF (needSelf \/ needTeam) /\ out.res.t = "undefined"
        THEN [same EXCEPT !.thrown = TRUE]
    ELSE [thrown |-> FALSE, err |-> Null, res |-> out.res,
          self |-> IF needSelf
                     THEN SlackObject(out.res.data.user, out.res.data.user_id)
                     ELSE cacheSelf,
          team |-> IF needTeam
                     THEN SlackObject(out.res.data.team, out.res.data.team_id)
                     ELSE cacheTeam,
          keys |-> cacheKeys \cup {"self", "team"},
          wrote |-> (IF needSelf THEN {"self"} ELSE {}) \cup
                    (IF needTeam THEN {"team"} ELSE {})]

\* this.methods.auth.test(args, cb), lines 323-332
AuthTest ==
    /\ ncalls < MaxCalls
    /\ Begin(NewCall("auth.test", "", "", "inflight", 1, <<>>))
    /\ UNCHANGED <<cacheKeys, cacheSelf, cacheTeam, parts, chat, socket, emits, saves>>

AuthTestResponse(c, r) ==
    LET a == authTestCallback(makeRequest(r)) IN
    /\ cacheSelf' = a.self
    /\ cacheTeam' = a.team
    /\ cacheKeys' = a.keys
    /\ End(c, IF a.thrown THEN Finish(c, r, "thrown", <<>>, {})
            ELSE IF Truthy(a.err) THEN Finish(c, r, "done", <<Invocation(a.err, Undefined)>>, {})
            ELSE Finish(c, r, "done", <<Invocation(Null, a.res)>>, a.wrote))
    /\ UNCHANGED <<parts, chat, socket, emits, saves>>

Slot(name) == IF name = "self" THEN cacheSelf ELSE cacheTeam

\* storage.self.get / storage.team.get, lines 222-225 and 236-239
SlotGet(name) ==
    /\ ncalls < MaxCalls
    /\ Begin(
            IF name \in cacheKeys
                THEN NewCall(name \o ".get", name, "", "done", 0, <<Invocation(Null, Slot(name))>>)
                ELSE NewCall(name \o ".get", name, "", "inflight", 1, <<>>))
    /\ UNCHANGED <<cacheKeys, cacheSelf, cacheTeam, parts, chat, socket, emits, saves>>

\* The callback self.get / team.get gives to auth.test, lines 225-229, 239-243
SlotGetResponse(c, r) ==
    LET a == authTestCallback(makeRequest(r))
        name == calls[c].k
    IN
    /\ cacheSelf' = a.self
    /\ cacheTeam' = a.team
    /\ cacheKeys' = a.keys
    /\ End(c, IF a.thrown THEN Finish(c, r, "thrown", <<>>, {})
            ELSE IF Truthy(a.err) THEN Finish(c, r, "done", <<Invocation(a.err, Undefined)>>, {})
            ELSE Finish(c, r, "done",
                        <<Invocation(Null, IF name = "self" THEN a.self ELSE a.team)>>, a.wrote))
    /\ UNCHANGED <<parts, chat, socket, emits, saves>>

----------------------------------------------------------------------------
(* SlackRTM.start and the facade's listeners, lines 103-131 and 257-293 *)

SelfEntity(r) == [t |-> "object", id |-> "UBOT", rev |-> r]
TeamEntity(r) == [t |-> "object", id |-> "TACME", rev |-> r]

\* The success body of rtm.start
StartData(r) ==
    [t |-> "rtm.start", self |-> SelfEntity(r), team |-> TeamEntity(r),
     users |-> <<Entity("X1", r)>>,
     channels |-> <<Entity("X1", r), Entity("X2", r)>>,
     groups |-> <<>>,
     mpims |-> <<Entity("X2", r)>>, ims |-> <<>>, bots |-> <<>>,
     url |-> "wss://" \o r]

StartDatas == {StartData(r) : r \in Revs}

\* The object start() emits as orgData, lines 111-120
orgDataOf(result) ==
    [t |-> "orgData", self |-> result.self, team |-> result.team,
     users |-> result.users, channels |-> result.channels, groups |-> result.groups,
     mpims |-> result.mpims, ims |-> result.ims, bots |-> result.bots]

Emit(name, a, b) == [name |-> name, a |-> a, b |-> b]

\* A slip that saves only the first entity of a snapshot collection
SaveFirst(p, list) == IF list = <<>> THEN p ELSE Put(p, Head(list))

RECURSIVE SaveEach(_, _)
\* for(let user of data.users) this.storage.users.save(user)
SaveEach(p, list) ==
    IF list = <<>> THEN p ELSE SaveEach(Put(p, Head(list)), Tail(list))

\* A call of this.socket.connect(url), with how many emissions the facade had
\* made when it was called
Connect(url, after) == [url |-> url, after |-> after]

\* A slip that connects the socket before the snapshot is emitted
emittedAtConnectEarly(before, data) == before

\* What the facade has emitted when start() reaches this.socket.connect, line
\* 123: the emission of line 111 and its listeners have run by then.
emittedAtConnect(before, data) == Append(before, Emit("orgData", data, Undefined))

\* start(), line 104
RtmStart ==
    /\ socket.starts < MaxStarts
    /\ socket' = [socket EXCEPT !.starts = @ + 1]
    /\ calls' = Append(calls, NewCall("rtm.start", "", "", "inflight", 1, <<>>))
    /\ UNCHANGED <<cacheKeys, cacheSelf, cacheTeam, parts, done, ncalls, chat, emits, saves>>

\* The callback start() gives to makeRequest, lines 104-130, with the facade's
\* requestFail and orgData listeners (lines 293 and 262-279) run inside emit.
\* start() takes no callback: socket.started records how its handler ended
\* and socket.resp the answer it was given.
StartResponse(c, r) ==
    LET out == makeRequest(r)
        ended(how) == [socket EXCEPT !.started = how, !.resp = r]
    IN
    /\ calls' = Remove(calls, c)
    /\ IF out.thrown
       THEN /\ socket' = ended("thrown")
            /\ UNCHANGED <<cacheKeys, cacheSelf, cacheTeam, parts, emits>>
       ELSE IF Truthy(out.err)
       THEN \* this.emit('requestFail', result) -> this.emit('rtmFail', err)
            /\ socket' = ended("failed")
            /\ emits' = Append(emits, Emit("rtmFail", out.res, Undefined))
            /\ UNCHANGED <<cacheKeys, cacheSelf, cacheTeam, parts>>
       ELSE IF out.res.t = "undefined"
       THEN \* result.self on an undefined result: TypeError
            /\ socket' = ended("thrown")
            /\ UNCHANGED <<cacheKeys, cacheSelf, cacheTeam, parts, emits>>
       ELSE IF out.res.data.t = "undefined"
       THEN \* a body without the snapshot fields: the orgData listener saves an
            \* undefined self and team, then for(... of undefined) is a TypeError
            /\ socket' = ended("thrown")
            /\ cacheSelf' = Undefined
            /\ cacheTeam' = Undefined
            /\ cacheKeys' = cacheKeys \cup {"self", "team"}
            /\ UNCHANGED <<parts, emits>>
       ELSE LET data == orgDataOf(out.res.data) IN
            /\ cacheSelf' = data.self
            /\ cacheTeam' = data.team
            /\ cacheKeys' = cacheKeys \cup {"self", "team"}
                   \cup (IF data.users = <<>> THEN {} ELSE {"users"})
                   \cup (IF data.channels = <<>> THEN {} ELSE {"channels"})
                   \cup (IF data.groups = <<>> THEN {} ELSE {"groups"})
            /\ parts' = [parts EXCEPT !["users"] = SaveEach(@, data.users),
                                      !["channels"] = SaveEach(@, data.channels),
                                      !["groups"] = SaveEach(@, data.groups)]
            /\ emits' = Append(emits, Emit("orgData", data, Undefined))
            /\ socket' = [ended("connected") EXCEPT
                    !.connects = Append(@, Connect(out.res.data.url,
                                                   Len(emittedAtConnect(emits, data)))),
                    !.listeners = @ + 1]
    /\ UNCHANGED <<done, ncalls, chat, saves>>

Payload(type, ent, url) == [t |-> "payload", type |-> type, ent |-> ent, url |-> url]

Payloads ==
    {Payload("hello", Undefined, Undefined), Payload("reconnect_url", Undefined, Str("wss://next"))}
    \cup {Payload(ty, e, Undefined) :
            ty \in {"team_join", "channel_created", "group_joined"}, e \in Entities}

\* A slip that sends every payload carrying data.channel to the channels
pushTargetByField(type) ==
    CASE type = "team_join" -> "users"
      [] type = "channel_created" -> "channels"
      [] type = "group_joined" -> "channels"
      [] OTHER -> ""

\* The partition written by the facade's listener for a push event type, lines 281-289
pushTarget(type) ==
    CASE type = "team_join" -> "users"
      [] type = "channel_created" -> "channels"
      [] type = "group_joined" -> "groups"
      [] OTHER -> ""

\* A slip that never takes the url of a payload
reconnectUrlKept(current, event) == current

\* if(event.type === 'reconnect_url') this.socket.options.reconnect_url = event.url
reconnectUrlAfter(current, event) ==
    IF event.type = "reconnect_url" THEN event.url ELSE current

RECURSIVE Repeat(_, _)
\* What n listeners of the same event make of one emission list
Repeat(list, n) == IF n = 0 THEN <<>> ELSE list \o Repeat(list, n - 1)

\* The socket delivers a payload: every 'message' listener registered by start()
\* (line 126) runs, and each makes the facade emit (type, data) and
\* ('event', type, data), lines 257-260, with the push listeners run inside emit.
SocketMessage(event) ==
    LET pl == pushTarget(event.type) IN
    /\ socket.listeners > 0
    /\ socket.msgs < MaxMsgs
    /\ socket' = [socket EXCEPT
            !.msgs = @ + 1,
            !.reconnect_url = reconnectUrlAfter(@, event)]
    /\ emits' = emits \o Repeat(<<Emit(event.type, event, Undefined),
                                    Emit("event", Str(event.type), event)>>, socket.listeners)
    /\ IF pl = ""
          THEN UNCHANGED <<cacheKeys, parts>>
          ELSE /\ cacheKeys' = createStorageIfNotExists(pl)
               /\ parts' = [parts EXCEPT ![pl] = Put(@, event.ent)]
    /\ UNCHANGED <<cacheSelf, cacheTeam, calls, done, ncalls, chat, saves>>

----------------------------------------------------------------------------
(* The bespoke chat.postMessage, lines 342-376 *)

\* A string is modelled as a slice of the caller's text: the len units that
\* start at offset off.  Two slices are the same string when they cover the
\* same units; every empty string is Text(0, 0).
Text(off, len) == IF len = 0 THEN [t |-> "string", off |-> 0, len |-> 0]
                  ELSE [t |-> "string", off |-> off, len |-> len]

Min(a, b) == IF a < b THEN a ELSE b

\* String.prototype.substr(start, length) for 0 <= start, 0 <= length
substr(x, start, length) ==
    LET from == Min(start, x.len) IN Text(x.off + from, Min(length, x.len - from))

\* String.prototype.substr(start)
substrFrom(x, start) == substr(x, start, x.len)

\* if(args.text.length > 2999), while(msg.length > 2999): lines 353 and 357
SplitThreshold == 2999

\* msg.substr(0, 3000), msg.substr(3000): lines 358 and 359
ChunkLength == 3000

RECURSIVE splitQueue(_)
\* lines 354-362: the queue built from msg
splitQueue(msg) ==
    IF msg.len > SplitThreshold
        THEN <<substr(msg, 0, ChunkLength)>> \o splitQueue(substrFrom(msg, ChunkLength))
        ELSE <<msg>>

TextLens == {0, 1} \cup {k * ChunkLength + d : k \in 1..MaxChunks, d \in {-1, 0, 1}}

\* args.text: absent, or a string of one of the lengths above
TextArgs == {Undefined} \cup {Text(0, l) : l \in TextLens}

\* A slip that tests only for an absent text
noTextAbsentOnly(text) == text.t = "undefined"

\* !args.text, line 349
noText(text) == text.t = "undefined" \/ text.len = 0

\* The success body of the n-th request of a call
MessageData(n) == [t |-> "message", n |-> n]

NewChat(text, st, chunked, queue, sent) ==
    [text |-> text, st |-> st, chunked |-> chunked, queue |-> queue, sent |-> sent,
     resps |-> <<>>, cb |-> <<>>]

\* chat.postMessage(args, cb), lines 342-376, up to its first makeRequest
PostMessage(text) ==
    /\ Len(chat) < MaxChat
    /\ chat' = Append(chat,
            IF noText(text)
                THEN NewChat(text, "thrown", FALSE, <<>>, <<>>)
            ELSE IF text.len > SplitThreshold
                THEN LET queue == splitQueue(text) IN
                     NewChat(text, "inflight", TRUE, Tail(queue), <<Head(queue)>>)
            ELSE NewChat(text, "inflight", FALSE, <<>>, <<text>>))
    /\ UNCHANGED <<cacheKeys, cacheSelf, cacheTeam, parts, calls, done, ncalls, socket, emits, saves>>

\* The callback of one chunk's makeRequest inside next(), lines 366-371, and
\* the caller's cb handed to makeRequest directly, line 375.
PostMessageResponse(c, r) ==
    LET m == chat[c]
        out == makeRequest(r)
        got == [m EXCEPT !.resps = Append(@, r)]
    IN
    /\ m.st = "inflight"
    /\ chat' = [chat EXCEPT ![c] =
            IF out.thrown THEN [got EXCEPT !.st = "thrown"]
            ELSE IF ~m.chunked
                THEN [got EXCEPT !.st = "done", !.cb = <<Invocation(out.err, out.res)>>]
            ELSE IF Truthy(out.err)
                THEN [got EXCEPT !.st = "done", !.cb = <<Invocation(out.err, out.res)>>]
            ELSE IF Len(m.queue) > 0
                THEN [got EXCEPT !.queue = Tail(@), !.sent = Append(@, Head(m.queue))]
            ELSE [got EXCEPT !.st = "done", !.cb = <<Invocation(Null, out.res)>>]]
    /\ UNCHANGED <<cacheKeys, cacheSelf, cacheTeam, parts, calls, done, ncalls, socket, emits, saves>>

----------------------------------------------------------------------------
(* Specifications *)

Init ==
    /\ cacheKeys = {}
    /\ cacheSelf = Undefined
    /\ cacheTeam = Undefined
    /\ parts = [pl \in PartNames |-> EmptyPartition]
    /\ calls = <<>>
    /\ done = NoCall
    /\ ncalls = 0
    /\ chat = <<>>
    /\ socket = [starts |-> 0, started |-> "", resp |-> NoResponse, connects |-> <<>>,
                 listeners |-> 0, msgs |-> 0, reconnect_url |-> Undefined]
    /\ emits = <<>>
    /\ saves = 0

Get == \E k \in Kinds, id \in Ids : StorageGet(k, id)
GetDone == \E c \in Pending("get"), r \in Responses(Entities) : GetResponse(c, r)
Find == \E k \in Kinds : FindInCache(k)
Save == \E k \in Kinds, e \in Entities : StorageSave(k, e)
All == \E k \in Kinds : StorageAll(k)
Call == \E m \in MethodNames : Method(m)
CallDone == \E c \in Pending("method"), r \in Responses({MethodData}) : MethodResponse(c, r)
AuthDone == \E c \in Pending("auth.test"), r \in Responses({AuthData}) : AuthTestResponse(c, r)
GetSlot == \E name \in {"self", "team"} : SlotGet(name)
GetSlotDone ==
    \E c \in Pending("self.get") \cup Pending("team.get"), r \in Responses({AuthData}) :
        SlotGetResponse(c, r)
StartDone == \E c \in Pending("rtm.start"), r \in Responses(StartDatas) : StartResponse(c, r)
Message == \E event \in Payloads : SocketMessage(event)
StartOnce == socket.starts = 0 /\ RtmStart
FirstMessage == socket.msgs = 0 /\ Message
Post == \E text \in TextArgs : PostMessage(text)
PostDone ==
    \E c \in 1..Len(chat) :
        \E r \in Responses({MessageData(Len(chat[c].sent))}) : PostMessageResponse(c, r)

\* The entity cache: get, findInCache, save, all and the push events
NextCache == Get \/ GetDone \/ Find \/ Save \/ All

\* The singleton slots: auth.test, self.get / team.get and the stream start
NextSlots == AuthTest \/ AuthDone \/ GetSlot \/ GetSlotDone \/ RtmStart \/ StartDone

\* The streaming connection: start and the payloads the socket delivers
NextStream == RtmStart \/ StartDone \/ Message

\* The stream's push events next to the cache's get: the caller starts the
\* stream once and the socket delivers one payload, whose listener saves the
\* entity it carries through the partition's save
NextPush == StartOnce \/ StartDone \/ FirstMessage \/ Get \/ GetDone

\* The dispatcher through the generated methods
NextRequest == Call \/ CallDone

\* chat.postMessage
NextChat == Post \/ PostDone

Next == NextCache \/ NextSlots \/ NextStream \/ NextPush \/ NextRequest \/ NextChat

SpecCache == Init /\ [][NextCache]_vars
SpecSlots == Init /\ [][NextSlots]_vars
SpecStream == Init /\ [][NextStream]_vars
SpecPush == Init /\ [][NextPush]_vars
SpecRequest == Init /\ [][NextRequest]_vars
SpecChat == Init /\ [][NextChat]_vars
Spec == Init /\ [][Next]_vars

----------------------------------------------------------------------------
(* Vocabulary of the claims *)

\* The dispatcher's classification of a transport answer, as section 4.1 of
\* the specification orders it: success is a 200 answer whose body is ok.
Succeeded(r) == ~Truthy(r.err) /\ r.statusCode = 200 /\ r.body.t = "body" /\ r.body.ok
Failed(r) == ~Succeeded(r)

\* The error value section 4.1 assigns to a failed answer.
ClassifiedError(r) ==
    IF Truthy(r.err) THEN r.err
    ELSE IF r.statusCode # 200
        THEN IF r.body.t = "body" /\ Truthy(r.body.error) THEN r.body.error
             ELSE Num(r.statusCode)
    ELSE IF r.body.t = "body" THEN r.body.error
    ELSE Undefined

\* This step ran the handler of a pending call; done' is what it did.
Completes == Len(calls') = Len(calls) - 1

\* This step made a call that finished at once; done' is what it did.
FinishesAtOnce == ncalls' = ncalls + 1 /\ calls' = calls

\* This step made a call; NewRecord is its record.
Calls == ncalls' = ncalls + 1
NewRecord == IF Len(calls') > Len(calls) THEN calls'[Len(calls')] ELSE done'

----------------------------------------------------------------------------
(* C10 *)

\* C10: every dispatcher call invokes its callback exactly once; a failed
\* answer (transport failure, non-200 with or without an error body, 200 with
\* a not-ok body) gives a present error, classified in that order, and no
\* success value; a successful answer gives no error and the body.
C10_Classification ==
    done.op = "method" =>
        /\ done.st = "done"
        /\ Len(done.cb) = 1
        /\ IF Succeeded(done.resp)
              THEN done.cb[1] = Invocation(Null, done.resp.body)
              ELSE /\ Truthy(done.cb[1].err)
                   /\ done.cb[1] = Invocation(ClassifiedError(done.resp), Undefined)

----------------------------------------------------------------------------
(* C2 *)

\* C2: a get for an id that is in its partition issues no info call and hands
\* the cached entity to the callback at once, whatever happened before; an
\* entry is never removed, and its value changes only in a step that stores an
\* entity under that id (a save, or a fetch that returns that id).
C2_CachedGet ==
    [][/\ \A pl \in PartNames : \A id \in DOMAIN parts[pl] :
            /\ id \in DOMAIN parts'[pl]
            /\ parts'[pl][id] # parts[pl][id] =>
                    \/ saves' = saves + 1
                    \/ Completes /\ done'.op = "get" /\ id \in done'.wrote
       /\ (Calls /\ NewRecord.op = "get"
                 /\ NewRecord.id \in DOMAIN parts[storagePlural(NewRecord.k)]) =>
            /\ calls' = calls
            /\ NewRecord.st = "done"
            /\ NewRecord.reqs = 0
            /\ NewRecord.cb =
                 <<Invocation(Null, parts[storagePlural(NewRecord.k)][NewRecord.id])>>
      ]_vars

\* A second call, after a save, is a get answered from the cache.
C2_Witness ==
    /\ ncalls = 2
    /\ saves = 1
    /\ done.op = "get"
    /\ done.reqs = 0
    /\ done.cb = <<Invocation(Null, parts[storagePlural(done.k)][done.id])>>

----------------------------------------------------------------------------
(* C7 *)

\* C7: when the info call of a get for an uncached id succeeds, the fetched
\* entity is stored under its own id and the callback is invoked exactly once
\* with no error and the fetched entity as the success value.
C7_FetchedEntityIsSuccessValue ==
    [][(Completes /\ done'.op = "get" /\ Succeeded(done'.resp)) =>
            LET e == done'.resp.body.data IN
            /\ parts'[storagePlural(done'.k)][e.id] = e
            /\ done'.st = "done"
            /\ done'.cb = <<Invocation(Null, e)>>
      ]_vars

----------------------------------------------------------------------------
(* C8 *)

\* C8: when the info call of a get for an uncached id fails, the callback
\* receives exactly the dispatcher's error and the partition is as it was.
C8_FailedFetch ==
    [][(Completes /\ done'.op = "get" /\ Failed(done'.resp)) =>
            /\ parts' = parts
            /\ done'.st = "done"
            /\ done'.cb = <<Invocation(ClassifiedError(done'.resp), Undefined)>>
      ]_vars

----------------------------------------------------------------------------
(* C9 *)

\* C9: all(callback), called when the partition exists, issues no list call
\* and invokes the callback exactly once with no error and the partition.
C9_AllFromCache ==
    [][(FinishesAtOnce /\ done'.op = "all" /\ storagePlural(done'.k) \in cacheKeys) =>
            /\ done'.reqs = 0
            /\ done'.st = "done"
            /\ Len(done'.cb) = 1
            /\ done'.cb[1].err = Null
      ]_vars

----------------------------------------------------------------------------
(* C1 *)

OrgDatas == {i \in 1..Len(emits) : emits[i].name = "orgData"}
LatestOrgData == emits[CHOOSE i \in OrgDatas : \A j \in OrgDatas : j <= i].a
EmitsOrgData == Len(emits') = Len(emits) + 1 /\ emits'[Len(emits')].name = "orgData"

\* C1: once a snapshot has been written, the self and team slots hold the
\* snapshot's values whether a successful identity check was handled before or
\* after it: a populated slot changes only by a snapshot write, and a
\* successful identity check fills exactly the slots that are empty.
C1_SnapshotWins ==
    /\ [](OrgDatas # {} =>
            /\ cacheSelf = LatestOrgData.self
            /\ cacheTeam = LatestOrgData.team)
    /\ [][/\ ("self" \in cacheKeys /\ cacheSelf' # cacheSelf) => EmitsOrgData
          /\ ("team" \in cacheKeys /\ cacheTeam' # cacheTeam) => EmitsOrgData
          /\ (Completes /\ done'.op = "auth.test" /\ Succeeded(done'.resp)) =>
                /\ "self" \notin cacheKeys =>
                        cacheSelf' = SlackObject(AuthData.user, AuthData.user_id)
                /\ "team" \notin cacheKeys =>
                        cacheTeam' = SlackObject(AuthData.team, AuthData.team_id)
         ]_vars

\* The identity check came first and filled both slots, the snapshot came
\* second, and the slots hold the snapshot's values.
C1_Witness ==
    /\ OrgDatas # {}
    /\ done.op = "auth.test"
    /\ Succeeded(done.resp)
    /\ done.wrote = {"self", "team"}
    /\ cacheSelf = LatestOrgData.self
    /\ cacheTeam = LatestOrgData.team

----------------------------------------------------------------------------
(* C3, C4, C5, C6: chat.postMessage *)

\* Every request of call m has been answered, no chunk is left, none failed.
AllSucceeded(m) ==
    /\ m.queue = <<>>
    /\ Len(m.resps) = Len(m.sent)
    /\ \A k \in 1..Len(m.resps) : Succeeded(m.resps[k])

\* Two strings one after the other
Concat(a, b) ==
    IF a.len = 0 THEN b
    ELSE IF b.len = 0 THEN a
    ELSE IF b.off = a.off + a.len THEN Text(a.off, a.len + b.len)
    ELSE [t |-> "string", off |-> -1, len |-> a.len + b.len]

RECURSIVE ConcatAll(_)
ConcatAll(list) ==
    IF list = <<>> THEN Text(0, 0) ELSE Concat(Head(list), ConcatAll(Tail(list)))

CeilDiv(a, b) == (a + b - 1) \div b

\* C3: the chunks of one call are dispatched in order and one at a time:
\* chunk k+1 is dispatched only in the step that receives a successful
\* response to chunk k, and at most one request of the call is in flight.
C3_ChunksOneAtATime ==
    /\ [](\A c \in 1..Len(chat) : Len(chat[c].sent) - Len(chat[c].resps) \in {0, 1})
    /\ [][\A c \in 1..Len(chat) :
            Len(chat'[c].sent) > Len(chat[c].sent) =>
                LET k == Len(chat[c].sent) IN
                /\ Len(chat[c].resps) = k - 1
                /\ Len(chat'[c].resps) = k
                /\ Succeeded(chat'[c].resps[k])
                /\ chat'[c].sent =
                     Append(chat[c].sent, substr(chat[c].text, k * ChunkLength, ChunkLength))
         ]_vars

\* C4: in a chunked call the first failed chunk k ends the call: no chunk after
\* k is dispatched and the callback is invoked exactly once with chunk k's
\* error; when every chunk succeeds the callback is invoked exactly once with
\* no error and the response of the final chunk.
C4_FirstFailureStops ==
    \A c \in 1..Len(chat) :
        LET m == chat[c]
            fails == {k \in 1..Len(m.resps) : Failed(m.resps[k])}
        IN
        m.chunked =>
            /\ fails # {} =>
                    LET k == CHOOSE i \in fails : \A j \in fails : i <= j IN
                    /\ Len(m.sent) = k
                    /\ Len(m.resps) = k
                    /\ Len(m.cb) = 1
                    /\ m.cb[1].err = ClassifiedError(m.resps[k])
            /\ AllSucceeded(m) =>
                    m.cb = <<Invocation(Null, m.resps[Len(m.resps)].body)>>

\* C5: for a non-empty text of length L whose requests all succeed, exactly
\* ceil(L/3000) requests are made, each chunk has between 1 and 3000 units,
\* the chunks in order make up the text, and a text of at most 3000 units is
\* sent in one request, unmodified.
C5_ChunkCount ==
    \A c \in 1..Len(chat) :
        LET m == chat[c] IN
        (m.text.t = "string" /\ m.text.len > 0 /\ AllSucceeded(m)) =>
            /\ Len(m.sent) = CeilDiv(m.text.len, ChunkLength)
            /\ \A k \in 1..Len(m.sent) : m.sent[k].len >= 1 /\ m.sent[k].len <= ChunkLength
            /\ ConcatAll(m.sent) = m.text
            /\ m.text.len <= ChunkLength => m.sent = <<m.text>>

\* C6: a call whose args carry no text (absent, or the empty string) throws
\* at once: it never makes a request and never invokes the callback.
C6_NoTextThrows ==
    \A c \in 1..Len(chat) :
        (chat[c].text.t = "undefined" \/ chat[c].text.len = 0) =>
            /\ chat[c].st = "thrown"
            /\ chat[c].sent = <<>>
            /\ chat[c].resps = <<>>
            /\ chat[c].cb = <<>>

\* A call with the empty string as text has thrown.
C6_Witness ==
    \E c \in 1..Len(chat) : chat[c].text = Text(0, 0) /\ chat[c].st = "thrown"

----------------------------------------------------------------------------
(* Vocabulary of the stream's claims *)

PushTypes == {"team_join", "channel_created", "group_joined"}

\* The partition section 4.4 of the specification gives to a push event type
PushPartition(type) ==
    CASE type = "team_join" -> "users"
      [] type = "channel_created" -> "channels"
      [] type = "group_joined" -> "groups"

\* This step is the socket delivering a payload; Delivered is the payload.
Delivers == socket'.msgs = socket.msgs + 1
Delivered == emits'[Len(emits')].b

\* The generic emissions made so far, in order
Generic == SelectSeq(emits, LAMBDA e : e.name = "event")

\* The ids of the entities that push events have carried for partition pl
PushedIds(pl) ==
    {Generic[i].b.ent.id :
        i \in {j \in 1..Len(Generic) :
                  /\ Generic[j].b.type \in PushTypes
                  /\ PushPartition(Generic[j].b.type) = pl}}

----------------------------------------------------------------------------
(* C11 *)

\* C11: the step in which the stream delivers a team_join, channel_created or
\* group_joined event leaves the event's entity in the users, channels or
\* groups partition under its id (so the write is complete before the next
\* payload is handled), the id stays in the partition, and a later get for
\* that id is answered from the cache with no remote call.
C11_PushEventCached ==
    /\ [](\A pl \in PartNames : PushedIds(pl) \subseteq DOMAIN parts[pl])
    /\ [][/\ (Delivers /\ Delivered.type \in PushTypes) =>
                LET pl == PushPartition(Delivered.type) IN
                /\ Delivered.ent.id \in DOMAIN parts'[pl]
                /\ parts'[pl][Delivered.ent.id] = Delivered.ent
          /\ (Calls /\ NewRecord.op = "get"
                    /\ NewRecord.id \in PushedIds(storagePlural(NewRecord.k))) =>
                /\ calls' = calls
                /\ NewRecord.st = "done"
                /\ NewRecord.reqs = 0
                /\ NewRecord.cb =
                     <<Invocation(Null, parts[storagePlural(NewRecord.k)][NewRecord.id])>>
         ]_vars

\* A group_joined event was delivered and a get for its id was answered from
\* the cache with the entity the event carried.
C11_Witness ==
    /\ Len(Generic) > 0
    /\ Generic[1].b.type = "group_joined"
    /\ done.op = "get"
    /\ done.k = "group"
    /\ done.id = Generic[1].b.ent.id
    /\ done.reqs = 0
    /\ done.cb = <<Invocation(Null, Generic[1].b.ent)>>

\* This step ran the handler of a pending start(); socket'.resp is the answer
\* to its bootstrap call.
StartEnds ==
    \E c \in 1..Len(calls) : calls[c].op = "rtm.start" /\ calls' = Remove(calls, c)

\* A failed answer that the dispatcher reports to its caller with a present error
ReportedFailure(r) ==
    /\ Failed(r)
    /\ Truthy(r.err) \/ r.body.t = "body"
    /\ Truthy(ClassifiedError(r))

----------------------------------------------------------------------------
(* C12 *)

\* C12: when the bootstrap call of a start() fails and the dispatcher reports
\* the error e, the facade emits rtmFail carrying that same error e (the
\* stream's requestFail carries e and line 293 passes it on).
C12_FailureCarriesError ==
    [][(StartEnds /\ ReportedFailure(socket'.resp)) =>
            emits' = Append(emits, Emit("rtmFail", ClassifiedError(socket'.resp), Undefined))
      ]_vars

----------------------------------------------------------------------------
(* C13 *)

OrgDataEmissions(es) == SelectSeq(es, LAMBDA e : e.name = "orgData")

\* C13: the step that handles a failed bootstrap call issues no further
\* bootstrap call and counts no further start, emits no orgData, does not
\* connect the socket or add a listener to it, and leaves the partitions, the
\* cache keys and both slots as they were.
C13_FailedStartChangesNothing ==
    [][(StartEnds /\ Failed(socket'.resp)) =>
            /\ Len(calls') = Len(calls) - 1
            /\ socket'.starts = socket.starts
            /\ OrgDataEmissions(emits') = OrgDataEmissions(emits)
            /\ socket'.connects = socket.connects
            /\ socket'.listeners = socket.listeners
            /\ UNCHANGED <<cacheKeys, cacheSelf, cacheTeam, parts>>
      ]_vars

\* A start() whose bootstrap call failed has been handled after an earlier
\* start() had written a snapshot: the snapshot is still in the cache and the
\* socket was connected once.
C13_Witness ==
    /\ socket.starts = 2
    /\ calls = <<>>
    /\ Failed(socket.resp)
    /\ Len(socket.connects) = 1
    /\ Len(OrgDataEmissions(emits)) = 1
    /\ cacheSelf = OrgDataEmissions(emits)[1].a.self
    /\ "channels" \in cacheKeys

----------------------------------------------------------------------------
(* C14 *)

CacheReadOps == {"get", "all", "self.get", "team.get"}

\* C14: no call of get, findInCache, all, self.get or team.get and no handler
\* of the stream ends in an exception: every such call ends by returning or by
\* invoking its callback, whatever the cache holds and whatever the answer.
C14_NoThrowOnReadOrStream ==
    /\ done.op \in CacheReadOps => done.st # "thrown"
    /\ socket.started # "thrown"

----------------------------------------------------------------------------
(* C15 *)

SlotGets == {"self.get", "team.get"}

\* This step ran the handler of a pending call of one of `ops`; done' is what
\* it did.
EndsCall(ops) ==
    \E c \in 1..Len(calls) : calls[c].op \in ops /\ calls' = Remove(calls, c)

\* C15: self.get / team.get on a populated slot invokes the callback at once
\* with the cached value and makes no call; on an empty slot it makes exactly
\* one identity-check call.  When that call succeeds both slots are populated,
\* a slot that had been populated meanwhile keeps its value, and the callback
\* gets the value the slot holds then; when it fails the callback gets the
\* error and neither slot is written.
C15_SlotGet ==
    [][/\ (Calls /\ NewRecord.op \in SlotGets) =>
            IF NewRecord.k \in cacheKeys
                THEN /\ calls' = calls
                     /\ NewRecord.st = "done"
                     /\ NewRecord.reqs = 0
                     /\ NewRecord.cb = <<Invocation(Null, Slot(NewRecord.k))>>
                ELSE /\ calls' = Append(calls, NewRecord)
                     /\ NewRecord.st = "inflight"
                     /\ NewRecord.reqs = 1
       /\ (EndsCall(SlotGets) /\ Succeeded(done'.resp)) =>
            /\ {"self", "team"} \subseteq cacheKeys'
            /\ "self" \in cacheKeys => cacheSelf' = cacheSelf
            /\ "team" \in cacheKeys => cacheTeam' = cacheTeam
            /\ done'.st = "done"
            /\ done'.cb = <<Invocation(Null, IF done'.k = "self" THEN cacheSelf'
                                                                 ELSE cacheTeam')>>
       /\ (EndsCall(SlotGets) /\ Failed(done'.resp)) =>
            /\ done'.st = "done"
            /\ done'.cb = <<Invocation(ClassifiedError(done'.resp), Undefined)>>
            /\ UNCHANGED <<cacheKeys, cacheSelf, cacheTeam>>
      ]_vars

----------------------------------------------------------------------------
(* C16 *)

\* C16: the step that handles a successful bootstrap call emits orgData
\* carrying the snapshot exactly once and asks the socket to connect, exactly
\* once, to the url of the answer, after that emission; no other step connects
\* the socket, so no connect comes before the orgData of its start.
C16_OrgDataThenConnect ==
    /\ [](\A i \in 1..Len(socket.connects) :
            LET at == socket.connects[i].after IN
            /\ at \in 1..Len(emits)
            /\ emits[at].name = "orgData"
            /\ Len(OrgDataEmissions(SubSeq(emits, 1, at))) = i)
    /\ [][/\ (StartEnds /\ Succeeded(socket'.resp)) =>
                LET result == socket'.resp.body.data IN
                /\ emits' = Append(emits, Emit("orgData", orgDataOf(result), Undefined))
                /\ socket'.connects =
                     Append(socket.connects, Connect(result.url, Len(emits')))
          /\ socket'.connects # socket.connects => StartEnds /\ Succeeded(socket'.resp)
         ]_vars

\* Two starts have succeeded: two snapshots were emitted and each connect
\* followed the emission of its own snapshot.
C16_Witness ==
    /\ Len(socket.connects) = 2
    /\ Len(OrgDataEmissions(emits)) = 2
    /\ socket.connects[2].url = socket.resp.body.data.url
    /\ emits[socket.connects[2].after].a = orgDataOf(socket.resp.body.data)

----------------------------------------------------------------------------
(* C17 *)

\* C17: the reconnect url held by the socket changes only in a step that
\* delivers a payload of type reconnect_url, and then it becomes that payload's
\* url; a payload of any other type leaves it as it was; the reconnect_url
\* payload is emitted as its specific type and as the generic event too.
C17_ReconnectUrl ==
    [][/\ socket'.reconnect_url # socket.reconnect_url =>
            Delivers /\ Delivered.type = "reconnect_url"
       /\ (Delivers /\ Delivered.type = "reconnect_url") =>
            /\ socket'.reconnect_url = Delivered.url
            /\ \E i \in (Len(emits) + 1)..(Len(emits') - 1) :
                    /\ emits'[i] = Emit("reconnect_url", Delivered, Undefined)
                    /\ emits'[i + 1] = Emit("event", Str("reconnect_url"), Delivered)
       /\ (Delivers /\ Delivered.type # "reconnect_url") =>
            socket'.reconnect_url = socket.reconnect_url
      ]_vars

\* A reconnect_url payload set the url and a later hello payload left it alone.
C17_Witness ==
    /\ Len(Generic) >= 2
    /\ Generic[1].b.type = "reconnect_url"
    /\ Generic[Len(Generic)].b.type = "hello"
    /\ socket.reconnect_url = Generic[1].b.url
    /\ socket.reconnect_url # Undefined

----------------------------------------------------------------------------
(* C18 *)

\* C18: for every payload the socket delivers, the facade emits the payload's
\* specific type once and then the generic event once, and nothing else, so
\* the emissions follow the arrival order of the payloads; this holds after
\* any number of start() calls.
C18_EmittedOnce ==
    [][Delivers =>
            emits' = emits \o <<Emit(Delivered.type, Delivered, Undefined),
                                Emit("event", Str(Delivered.type), Delivered)>>
      ]_vars

----------------------------------------------------------------------------
(* C19 *)

SnapshotKeys == {"self", "team", "users", "channels", "groups"}

\* The entities of a snapshot collection, by id
ById(list) == {<<list[i].id, list[i]>> : i \in 1..Len(list)}

\* Partition p' is p with every entity of list under its id, and nothing else
WrittenFrom(list, p, q) ==
    /\ \A x \in ById(list) : x[1] \in DOMAIN q /\ q[x[1]] = x[2]
    /\ \A id \in DOMAIN q :
            (\A x \in ById(list) : x[1] # id) => id \in DOMAIN p /\ q[id] = p[id]

\* C19: in the step in which the facade emits orgData the snapshot is written
\* in full: the self and team slots are the snapshot's, every user, channel and
\* group of the snapshot is in its partition under its id, and nothing else
\* (so none of its mpims, ims or bots) is written to a partition; the cache
\* never has a key other than self, team, users, channels and groups.
C19_SnapshotWritten ==
    /\ [](cacheKeys \subseteq SnapshotKeys)
    /\ [][EmitsOrgData =>
            LET data == emits'[Len(emits')].a IN
            /\ {"self", "team"} \subseteq cacheKeys'
            /\ cacheSelf' = data.self
            /\ cacheTeam' = data.team
            /\ WrittenFrom(data.users, parts["users"], parts'["users"])
            /\ WrittenFrom(data.channels, parts["channels"], parts'["channels"])
            /\ WrittenFrom(data.groups, parts["groups"], parts'["groups"])
         ]_vars

\* A snapshot with one user, two channels and an mpim has been emitted: both
\* channels are cached, the mpim's id is in no partition but channels.
C19_Witness ==
    /\ OrgDatas # {}
    /\ socket.msgs = 0
    /\ DOMAIN parts["channels"] = {"X1", "X2"}
    /\ parts["channels"]["X2"] = LatestOrgData.channels[2]
    /\ DOMAIN parts["users"] = {"X1"}
    /\ DOMAIN parts["groups"] = {}
    /\ LatestOrgData.mpims # <<>>
    /\ cacheKeys = {"self", "team", "users", "channels"}

----------------------------------------------------------------------------
(* C20 *)

\* C20: when the fetch of a get(X) succeeds with an entity of id X, the entry
\* for X becomes the fetched entity whatever a save (here the one a push event
\* makes) stored there while the fetch was in flight; a get for an id that is not cached
\* issues its own remote call even when another get for that id is in flight;
\* and every entry of a partition is stored under its own id, so a partition
\* never holds two entries for one id.
C20_LastWriterWins ==
    /\ [](\A pl \in PartNames : \A id \in DOMAIN parts[pl] : parts[pl][id].id = id)
    /\ [][/\ (EndsCall({"get"}) /\ Succeeded(done'.resp)
                                /\ done'.resp.body.data.id = done'.id) =>
                LET pl == storagePlural(done'.k) IN
                /\ done'.id \in DOMAIN parts'[pl]
                /\ parts'[pl][done'.id] = done'.resp.body.data
          /\ (Calls /\ NewRecord.op = "get"
                    /\ NewRecord.id \notin DOMAIN parts[storagePlural(NewRecord.k)]) =>
                /\ calls' = Append(calls, NewRecord)
                /\ NewRecord.st = "inflight"
                /\ NewRecord.reqs = 1
         ]_vars

\* Two gets for the same uncached id were in flight at once; a push event
\* stored another entity under that id meanwhile; the first fetch to succeed
\* has replaced it with the fetched entity.
C20_Witness ==
    /\ ncalls = 2
    /\ Len(calls) = 1
    /\ done.op = "get"
    /\ done.reqs = 1
    /\ calls[1].op = "get" /\ calls[1].k = done.k /\ calls[1].id = done.id
    /\ Succeeded(done.resp)
    /\ done.resp.body.data.id = done.id
    /\ saves = 0
    /\ Len(Generic) = 1
    /\ Generic[1].b.type \in PushTypes
    /\ PushPartition(Generic[1].b.type) = storagePlural(done.k)
    /\ Generic[1].b.ent.id = done.id
    /\ Generic[1].b.ent # done.resp.body.data
    /\ parts[storagePlural(done.k)][done.id] = done.resp.body.data

====
